---- MODULE Spec2Model ----
(***************************************************************************)
(* Model of src/client/utils.mjs: the password cell, the encrypted         *)
(* reactive store (useReactiveEncryptedStorage) and the account registry   *)
(* with its socket handlers (useAccountsStorage).                          *)
(*                                                                         *)
(* Strings whose letter case matters (addresses, blockchain names) are     *)
(* sequences of one-character strings, so that toLowerCase is a real       *)
(* conversion.  JavaScript runs every handler to completion; Vue flushes   *)
(* the watchers of a mutated reactive value in the microtask that follows  *)
(* the mutation, before any other socket event or user call, so a handler  *)
(* and the watchers it triggers are one step.  The asynchronous            *)
(* encode-and-write of the store and the asynchronous decode of open are   *)
(* separate steps.                                                         *)
(*                                                                         *)
(* emitted, errors and calls hold what the most recent step handed to      *)
(* socket.emit, to ElMessage.error and to localStorage / the codec; op     *)
(* names that step and its argument.  writeFailed tells that a write-back  *)
(* of this session has failed; unread is the blob that open could not      *)
(* decode, until the list is mutated.  store is a store of plain JSON      *)
(* values opened with the default codec, cipher a call of encryptData and  *)
(* decryptData on bytes.                                                   *)
(***************************************************************************)
EXTENDS Integers, Sequences, FiniteSets, TLC

VARIABLES storagePassword, localStorage, phase, decoding, accounts,
          accountsStatus, pending, emitted, errors, calls, op,
          writeFailed, unread, store, cipher

vars == <<storagePassword, localStorage, phase, decoding, accounts,
          accountsStatus, pending, emitted, errors, calls, op,
          writeFailed, unread, store, cipher>>

(* ------------------------------ bounds --------------------------------- *)

(* write-backs in flight at once, in the store's specification *)
MaxPending == 2

(* write-backs in flight at once, in the registry's specification *)
MaxInFlight == 1

(* ----------------------------- constants ------------------------------- *)

version == 2

NoPassword == "null"

Passwords == {"pw1", "pw2"}

SessionPassword == "pw1"

NoSlot == [none |-> TRUE]

NoAddress == <<>>

blockchain == <<"E", "t">>

(* private keys the account factory can draw, and the address of each; a
   fresh key never repeats one that is in the list *)
PrivateKeys == {"k1", "k2"}

AddressOf(pk) == IF pk = "k1" THEN <<"A", "b">> ELSE <<"c", "d">>

create(pk) == [address |-> AddressOf(pk), privateKey |-> pk]

sign(account, dataToSign) == <<"sig", account.privateKey, dataToSign>>

(* addresses handed to the operations and carried by inbound messages *)
InputAddresses == {<<"A", "b">>, <<"a", "b">>, <<"c", "d">>, <<"e", "f">>}

InputBlockchains == {<<"e", "T">>, <<"s", "o">>}

(* addresses carried by inbound challenge and challenge-result messages *)
MessageAddresses == {<<"A", "b">>, <<"a", "b">>, <<"c", "d">>}

MessageIds == {1, 2}

DataToSign == {"d1"}

(* ------------------------------ strings -------------------------------- *)

toLowerChar(c) ==
    CASE c = "A" -> "a"
      [] c = "B" -> "b"
      [] c = "E" -> "e"
      [] c = "T" -> "t"
      [] OTHER -> c

toLowerCase(s) == [i \in DOMAIN s |-> toLowerChar(s[i])]

(* ------------------------------- Map ----------------------------------- *)

EmptyMap == <<>>

MapSet(m, k, v) == [x \in DOMAIN m \cup {k} |-> IF x = k THEN v ELSE m[x]]

MapDelete(m, k) == [x \in DOMAIN m \ {k} |-> m[x]]

MapHas(m, k) == k \in DOMAIN m

(* ------------------------------ cipher --------------------------------- *)

(* the store's view of the cipher: a blob is the content sealed under a
   password; it opens under that password as long as no byte of it was
   changed *)
encryptData(data, password) == [key |-> password, data |-> data, intact |-> TRUE]

decryptOk_anyPassword(blob, password) == blob.intact

decryptOk(blob, password) == blob.intact /\ blob.key = password

decryptData(blob, password) == blob.data

JSONstringify(keys) == [json |-> keys]

JSONparse(text) == text.json

(* the codec of the account store *)
encode(data, password) ==
    encryptData(JSONstringify([i \in DOMAIN data |-> data[i].privateKey]), password)

decode(blob, password) ==
    LET keys == JSONparse(decryptData(blob, password))
    IN  [i \in DOMAIN keys |-> create(keys[i])]

(* ------------------------------ events --------------------------------- *)

AddAddressEvent(address) ==
    [event |-> "addAddress", blockchain |-> blockchain, address |-> address,
     version |-> version]

RemoveAddressEvent(address) ==
    [event |-> "removeAddress", blockchain |-> blockchain, address |-> address]

(* ----------------------------- registry -------------------------------- *)

getAccountIndex_exactCase(accs, address) ==
    IF address = NoAddress THEN 0
    ELSE LET hits == {i \in DOMAIN accs : accs[i].address = address}
         IN  IF hits = {} THEN 0
             ELSE CHOOSE i \in hits : \A j \in hits : i <= j

getAccountIndex(accs, address) ==
    IF address = NoAddress THEN 0
    ELSE LET hits == {i \in DOMAIN accs :
                        toLowerCase(accs[i].address) = toLowerCase(address)}
         IN  IF hits = {} THEN 0
             ELSE CHOOSE i \in hits : \A j \in hits : i <= j

RECURSIVE watchAccounts_noHasCheck(_, _, _)
watchAccounts_noHasCheck(accs, status, out) ==
    IF accs = <<>> THEN [status |-> status, emitted |-> out]
    ELSE LET account == Head(accs)
             key == toLowerCase(account.address)
         IN  watchAccounts_noHasCheck(Tail(accs),
                                      MapSet(status, key, "AUTHORIZING"),
                                      Append(out, AddAddressEvent(account.address)))

RECURSIVE watchAccounts(_, _, _)
watchAccounts(accs, status, out) ==
    IF accs = <<>> THEN [status |-> status, emitted |-> out]
    ELSE LET account == Head(accs)
             key == toLowerCase(account.address)
         IN  IF ~MapHas(status, key)
             THEN watchAccounts(Tail(accs), MapSet(status, key, "AUTHORIZING"),
                                Append(out, AddAddressEvent(account.address)))
             ELSE watchAccounts(Tail(accs), status, out)

(* the store's deep watcher: encode(storage) is called synchronously, the
   write to the slot follows when the encryption resolves *)
writeBack(accs, password) == encode(accs, password)

RECURSIVE reconnectAll(_, _, _)
reconnectAll(accs, status, out) ==
    IF accs = <<>> THEN [status |-> status, emitted |-> out]
    ELSE LET account == Head(accs)
         IN  reconnectAll(Tail(accs),
                          MapSet(status, account.address, "AUTHORIZING"),
                          Append(out, AddAddressEvent(account.address)))

(* accounts.splice(index, 1) with index as returned by indexOf: -1 counts
   from the end of the array *)
splice1(accs, index) ==
    LET at == IF index = -1 THEN Len(accs) ELSE index + 1
    IN  IF at < 1 \/ at > Len(accs) THEN accs
        ELSE SubSeq(accs, 1, at - 1) \o SubSeq(accs, at + 1, Len(accs))

(* accounts.indexOf(account), account being the result of getAccountByAddress *)
indexOf(accs, i) == IF i = 0 THEN -1 ELSE i - 1

Idle == [idle |-> TRUE]

Init ==
    /\ storagePassword = SessionPassword
    /\ localStorage = NoSlot
    /\ phase = "start"
    /\ decoding = NoSlot
    /\ accounts = <<>>
    /\ accountsStatus = EmptyMap
    /\ pending = {}
    /\ emitted = <<>>
    /\ errors = <<>>
    /\ calls = <<>>
    /\ op = [name |-> "init"]
    /\ writeFailed = FALSE
    /\ unread = NoSlot
    /\ store = Idle
    /\ cipher = Idle

(* the user sets the password *)
SetPassword(p) ==
    /\ storagePassword' = p
    /\ emitted' = <<>> /\ errors' = <<>> /\ calls' = <<>>
    /\ op' = [name |-> "setPassword", password |-> p]
    /\ UNCHANGED <<localStorage, phase, decoding, accounts, accountsStatus, pending>>
    /\ UNCHANGED <<writeFailed, unread, store, cipher>>

(* the page is loaded again: memory is lost, localStorage stays, and the
   password cell is read from sessionStorage (kept by a reload, empty in a
   new session) *)
Reload(keepSession) ==
    /\ phase # "start"
    /\ storagePassword' = IF keepSession THEN storagePassword ELSE NoPassword
    /\ phase' = "start"
    /\ decoding' = NoSlot
    /\ accounts' = <<>>
    /\ accountsStatus' = EmptyMap
    /\ pending' = {}
    /\ emitted' = <<>> /\ errors' = <<>> /\ calls' = <<>>
    /\ op' = [name |-> "reload", keepSession |-> keepSession]
    /\ writeFailed' = FALSE
    /\ unread' = NoSlot
    /\ store' = Idle
    /\ UNCHANGED <<localStorage, cipher>>

Hydrate_notImmediate(storage, readCalls, readErrors) ==
    LET w == watchAccounts(storage, EmptyMap, <<>>)
    IN  /\ accounts' = storage
        /\ pending' = pending
        /\ accountsStatus' = w.status
        /\ emitted' = w.emitted
        /\ errors' = readErrors
        /\ calls' = readCalls \o <<"watch">>
        /\ phase' = "ready"
        /\ decoding' = NoSlot
        /\ writeFailed' = FALSE
        /\ unread' = IF readErrors # <<>> THEN decoding.blob ELSE NoSlot

(* lines 33-44 and 52-87: the value becomes reactive, the store's watcher
   runs at once (immediate) and starts a write-back, the registry's watcher
   runs at once and announces the accounts *)
Hydrate(storage, readCalls, readErrors) ==
    LET w == watchAccounts(storage, EmptyMap, <<>>)
    IN  /\ accounts' = storage
        /\ pending' = pending \cup {writeBack(storage, storagePassword)}
        /\ accountsStatus' = w.status
        /\ emitted' = w.emitted
        /\ errors' = readErrors
        /\ calls' = readCalls \o <<"watch", "encode">>
        /\ phase' = "ready"
        /\ decoding' = NoSlot
        /\ writeFailed' = FALSE
        /\ unread' = IF readErrors # <<>> THEN decoding.blob ELSE NoSlot

passwordSet_always == TRUE

passwordSet == storagePassword # NoPassword

(* useAccountsStorage is called: lines 47-48 and 17-26 *)
OpenBegin ==
    /\ phase = "start"
    /\ op' = [name |-> "open"]
    /\ IF ~passwordSet
       THEN /\ errors' = <<"NoPassword">>
            /\ emitted' = <<>> /\ calls' = <<>>
            /\ phase' = "failed"
            /\ UNCHANGED <<storagePassword, localStorage, decoding, accounts,
                           accountsStatus, pending, writeFailed, unread>>
       ELSE IF localStorage # NoSlot
       THEN /\ decoding' = [blob |-> localStorage, password |-> storagePassword]
            /\ calls' = <<"getItem", "getItem", "decode">>
            /\ phase' = "decoding"
            /\ emitted' = <<>> /\ errors' = <<>>
            /\ UNCHANGED <<storagePassword, localStorage, accounts,
                           accountsStatus, pending, writeFailed, unread>>
       ELSE /\ Hydrate(<<>>, <<"getItem">>, <<>>)
            /\ UNCHANGED <<storagePassword, localStorage>>
    /\ UNCHANGED <<store, cipher>>

(* the decode started by open settles: lines 26-33 *)
OpenFinish ==
    /\ phase = "decoding"
    /\ op' = [name |-> "openFinish"]
    /\ IF decryptOk(decoding.blob, decoding.password)
       THEN Hydrate(decode(decoding.blob, decoding.password), <<>>, <<>>)
       ELSE Hydrate(<<>>, <<>>, <<"ReadError">>)
    /\ UNCHANGED <<storagePassword, localStorage, store, cipher>>

WriteBackDone_silent(blob, ok) ==
    /\ blob \in pending
    /\ pending' = pending \ {blob}
    /\ localStorage' = IF ok THEN blob ELSE localStorage
    /\ errors' = <<>>
    /\ calls' = IF ok THEN <<"setItem">> ELSE <<>>
    /\ emitted' = <<>>
    /\ op' = [name |-> "writeBack", ok |-> ok]
    /\ writeFailed' = (writeFailed \/ ~ok)
    /\ UNCHANGED <<storagePassword, phase, decoding, accounts, accountsStatus>>
    /\ UNCHANGED <<unread, store, cipher>>

(* an encryption started by the store's watcher resolves and the slot is
   written (line 37), or it fails and the error is surfaced (lines 38-41) *)
WriteBackDone(blob, ok) ==
    /\ blob \in pending
    /\ pending' = pending \ {blob}
    /\ localStorage' = IF ok THEN blob ELSE localStorage
    /\ errors' = IF ok THEN <<>> ELSE <<"WriteError">>
    /\ calls' = IF ok THEN <<"setItem">> ELSE <<>>
    /\ emitted' = <<>>
    /\ op' = [name |-> "writeBack", ok |-> ok]
    /\ writeFailed' = (writeFailed \/ ~ok)
    /\ UNCHANGED <<storagePassword, phase, decoding, accounts, accountsStatus>>
    /\ UNCHANGED <<unread, store, cipher>>

(* between two sessions a byte of the persisted blob is changed *)
Tamper ==
    /\ phase = "start"
    /\ localStorage # NoSlot
    /\ localStorage.intact
    /\ localStorage' = [localStorage EXCEPT !.intact = FALSE]
    /\ emitted' = <<>> /\ errors' = <<>> /\ calls' = <<>>
    /\ op' = [name |-> "tamper"]
    /\ UNCHANGED <<storagePassword, phase, decoding, accounts, accountsStatus, pending>>
    /\ UNCHANGED <<writeFailed, unread, store, cipher>>

(* the watchers of the account list, run after a handler changed the list:
   the store's write-back (line 35) and the registry's watcher (line 80) *)
ListChanged(accs, status, out) ==
    LET w == watchAccounts(accs, status, out)
    IN  /\ accounts' = accs
        /\ pending' = pending \cup {writeBack(accs, storagePassword)}
        /\ accountsStatus' = w.status
        /\ emitted' = w.emitted
        /\ calls' = <<"encode">>
        /\ unread' = NoSlot

createAddress ==
    /\ phase = "ready"
    /\ \E pk \in PrivateKeys \ {accounts[i].privateKey : i \in DOMAIN accounts} :
          ListChanged(Append(accounts, create(pk)), accountsStatus, <<>>)
    /\ errors' = <<>>
    /\ op' = [name |-> "createAddress"]
    /\ UNCHANGED <<storagePassword, localStorage, phase, decoding>>
    /\ UNCHANGED <<writeFailed, store, cipher>>

removeAddress(address) ==
    /\ phase = "ready"
    /\ op' = [name |-> "removeAddress", address |-> address]
    /\ LET account == getAccountIndex(accounts, address)
       IN  IF address = NoAddress
           THEN /\ errors' = <<"AddressNotFound11">>
                /\ emitted' = <<>> /\ calls' = <<>>
                /\ UNCHANGED <<accounts, accountsStatus, pending, unread>>
           ELSE LET out == <<RemoveAddressEvent(address)>>
                    status == MapDelete(accountsStatus, toLowerCase(address))
                    accs == splice1(accounts, indexOf(accounts, account))
                IN  /\ errors' = <<>>
                    /\ IF accs # accounts
                       THEN ListChanged(accs, status, out)
                       ELSE /\ accountsStatus' = status
                            /\ emitted' = out
                            /\ calls' = <<>>
                            /\ UNCHANGED <<accounts, pending, unread>>
    /\ UNCHANGED <<storagePassword, localStorage, phase, decoding>>
    /\ UNCHANGED <<writeFailed, store, cipher>>

reconnectAddress(address) ==
    /\ phase = "ready"
    /\ op' = [name |-> "reconnectAddress", address |-> address]
    /\ LET account == getAccountIndex(accounts, address)
       IN  IF account = 0
           THEN /\ errors' = <<"AddressNotFound12">>
                /\ emitted' = <<>>
                /\ UNCHANGED accountsStatus
           ELSE /\ accountsStatus' = MapSet(accountsStatus, address, "AUTHORIZING")
                /\ emitted' = <<AddAddressEvent(address)>>
                /\ errors' = <<>>
    /\ calls' = <<>>
    /\ UNCHANGED <<storagePassword, localStorage, phase, decoding, accounts, pending>>
    /\ UNCHANGED <<writeFailed, unread, store, cipher>>

reconnectAllAddresses ==
    /\ phase = "ready"
    /\ op' = [name |-> "reconnectAllAddresses"]
    /\ LET r == reconnectAll(accounts, accountsStatus, <<>>)
       IN  /\ accountsStatus' = r.status
           /\ emitted' = r.emitted
    /\ errors' = <<>> /\ calls' = <<>>
    /\ UNCHANGED <<storagePassword, localStorage, phase, decoding, accounts, pending>>
    /\ UNCHANGED <<writeFailed, unread, store, cipher>>

(* socket.on('connect'): calls reconnectAllAddresses() *)
OnConnect ==
    /\ phase = "ready"
    /\ op' = [name |-> "connect"]
    /\ LET r == reconnectAll(accounts, accountsStatus, <<>>)
       IN  /\ accountsStatus' = r.status
           /\ emitted' = r.emitted
    /\ errors' = <<>> /\ calls' = <<>>
    /\ UNCHANGED <<storagePassword, localStorage, phase, decoding, accounts, pending>>
    /\ UNCHANGED <<writeFailed, unread, store, cipher>>

clear_lowerCasedOnly(m) ==
    [x \in {k \in DOMAIN m : k # toLowerCase(k)} |-> m[x]]

(* accountsStatus.clear() *)
clear(m) == EmptyMap

(* socket.on('disconnect') *)
OnDisconnect ==
    /\ phase = "ready"
    /\ accountsStatus' = clear(accountsStatus)
    /\ emitted' = <<>> /\ errors' = <<>> /\ calls' = <<>>
    /\ op' = [name |-> "disconnect"]
    /\ UNCHANGED <<storagePassword, localStorage, phase, decoding, accounts, pending>>
    /\ UNCHANGED <<writeFailed, unread, store, cipher>>

ResponseEvent(messageId, body) ==
    [event |-> "response-", messageId |-> messageId, body |-> body]

(* socket.on('addressAuthChallenge') *)
OnAddressAuthChallenge(message) ==
    /\ phase = "ready"
    /\ op' = [name |-> "addressAuthChallenge", message |-> message]
    /\ IF toLowerCase(message.payload.blockchain) # toLowerCase(blockchain)
       THEN emitted' = <<>> /\ errors' = <<>>
       ELSE LET account == getAccountIndex(accounts, message.payload.address)
            IN  IF account # 0
                THEN /\ emitted' = <<ResponseEvent(message.messageId,
                            [success |-> TRUE,
                             signature |-> sign(accounts[account],
                                                message.payload.dataToSign)])>>
                     /\ errors' = <<>>
                ELSE /\ errors' = <<"AddressNotFound13">>
                     /\ emitted' = <<ResponseEvent(message.messageId,
                                                   [success |-> FALSE])>>
    /\ calls' = <<>>
    /\ UNCHANGED <<storagePassword, localStorage, phase, decoding, accounts,
                   accountsStatus, pending>>
    /\ UNCHANGED <<writeFailed, unread, store, cipher>>

statusOnFailed == "UNAUTHORIZED"

statusOnSuccess == "ONLINE"

challengeResultKey_raw(address) == address

challengeResultKey(address) == toLowerCase(address)

(* socket.on('addressAuthChallengeFailed') *)
OnAddressAuthChallengeFailed(address) ==
    /\ phase = "ready"
    /\ op' = [name |-> "addressAuthChallengeFailed", address |-> address]
    /\ accountsStatus' = MapSet(accountsStatus, challengeResultKey(address),
                                statusOnFailed)
    /\ emitted' = <<>> /\ errors' = <<>> /\ calls' = <<>>
    /\ UNCHANGED <<storagePassword, localStorage, phase, decoding, accounts, pending>>
    /\ UNCHANGED <<writeFailed, unread, store, cipher>>

(* socket.on('addressAuthChallengeSuccess') *)
OnAddressAuthChallengeSuccess(address) ==
    /\ phase = "ready"
    /\ op' = [name |-> "addressAuthChallengeSuccess", address |-> address]
    /\ accountsStatus' = MapSet(accountsStatus, challengeResultKey(address),
                                statusOnSuccess)
    /\ emitted' = <<>> /\ errors' = <<>> /\ calls' = <<>>
    /\ UNCHANGED <<storagePassword, localStorage, phase, decoding, accounts, pending>>
    /\ UNCHANGED <<writeFailed, unread, store, cipher>>

(* the list is not mutated while more than n write-backs would be in flight *)
InFlightAtMost(n) == Cardinality(pending') <= n

Messages ==
    [messageId : MessageIds,
     payload : [blockchain : InputBlockchains,
                address : MessageAddresses,
                dataToSign : DataToSign]]

(* the registry within one session: the password is set and stays, every
   write-back succeeds *)
Next ==
    \/ Reload(TRUE)
    \/ OpenBegin
    \/ OpenFinish
    \/ \E blob \in pending : WriteBackDone(blob, TRUE)
    \/ createAddress /\ InFlightAtMost(MaxInFlight)
    \/ \E address \in InputAddresses \cup {NoAddress} :
          removeAddress(address) /\ InFlightAtMost(MaxInFlight)
    \/ \E address \in InputAddresses \cup {NoAddress} : reconnectAddress(address)
    \/ reconnectAllAddresses
    \/ OnConnect
    \/ OnDisconnect
    \/ \E message \in Messages : OnAddressAuthChallenge(message)
    \/ \E address \in MessageAddresses : OnAddressAuthChallengeFailed(address)
    \/ \E address \in MessageAddresses : OnAddressAuthChallengeSuccess(address)

Spec == Init /\ [][Next]_vars

(* the store on its own: the password is set and changed by the user, the
   session ends and restarts, write-backs may fail, and the list is mutated
   by the user *)
InitStore ==
    /\ storagePassword \in {NoPassword} \cup Passwords
    /\ localStorage = NoSlot
    /\ phase = "start"
    /\ decoding = NoSlot
    /\ accounts = <<>>
    /\ accountsStatus = EmptyMap
    /\ pending = {}
    /\ emitted = <<>>
    /\ errors = <<>>
    /\ calls = <<>>
    /\ op = [name |-> "init"]
    /\ writeFailed = FALSE
    /\ unread = NoSlot
    /\ store = Idle
    /\ cipher = Idle

NextStore ==
    \/ \E p \in Passwords : SetPassword(p)
    \/ \E k \in BOOLEAN : Reload(k)
    \/ Tamper
    \/ OpenBegin
    \/ OpenFinish
    \/ \E blob \in pending, ok \in BOOLEAN : WriteBackDone(blob, ok)
    \/ createAddress /\ InFlightAtMost(MaxPending)
    \/ \E address \in InputAddresses \cup {NoAddress} :
          removeAddress(address) /\ InFlightAtMost(MaxPending)

SpecStore == InitStore /\ [][NextStore]_vars

(* the write-backs of one session: the password stays, every write-back
   succeeds, and up to MaxPending of them are in flight at once *)
NextWrites ==
    \/ Reload(TRUE)
    \/ OpenBegin
    \/ OpenFinish
    \/ \E blob \in pending : WriteBackDone(blob, TRUE)
    \/ createAddress /\ InFlightAtMost(MaxPending)
    \/ \E address \in InputAddresses \cup {NoAddress} :
          removeAddress(address) /\ InFlightAtMost(MaxPending)

SpecWrites == Init /\ [][NextWrites]_vars

(* ---- the generic store with its default codec: lines 17-45 ---- *)

(* the values JSON.parse can return, one record shape per JavaScript type *)
JNull == [type |-> "null"]

JBool(b) == [type |-> "boolean", bool |-> b]

JNum(n) == [type |-> "number", num |-> n]

JStr(s) == [type |-> "string", str |-> s]

JArr(items) == [type |-> "array", items |-> items]

JsonValues ==
    {JNull, JBool(FALSE), JBool(TRUE), JNum(0), JNum(1), JStr(<<>>),
     JStr(<<"x">>), JArr(<<>>), JArr(<<JNum(0)>>)}

(* the defaultValue arguments: reactive() takes an object *)
DefaultValues == {JArr(<<>>), JArr(<<JNum(1)>>)}

Digits == <<"0", "1", "2", "3", "4", "5", "6", "7", "8", "9">>

RECURSIVE JSONtext(_)
RECURSIVE JSONitems(_, _)
(* the elements of an array from index i on, separated by commas *)
JSONitems(items, i) ==
    IF i > Len(items) THEN <<>>
    ELSE (IF i > 1 THEN <<",">> ELSE <<>>) \o JSONtext(items[i])
         \o JSONitems(items, i + 1)

(* JSON.stringify(data), line 18, as a sequence of characters *)
JSONtext(v) ==
    CASE v.type = "null" -> <<"n", "u", "l", "l">>
      [] v.type = "boolean" ->
           IF v.bool THEN <<"t", "r", "u", "e">> ELSE <<"f", "a", "l", "s", "e">>
      [] v.type = "number" -> <<Digits[v.num + 1]>>
      [] v.type = "string" -> <<"\"">> \o v.str \o <<"\"">>
      [] v.type = "array" -> <<"[">> \o JSONitems(v.items, 1) \o <<"]">>

(* JSON.parse(text), line 19: throws unless text is the JSON text of a value *)
JSONvalid(text) == \E v \in JsonValues : JSONtext(v) = text

JSONvalue(text) == CHOOSE v \in JsonValues : JSONtext(v) = text

(* ToBoolean of a parsed value, as the operator || of line 33 applies it *)
truthy(v) ==
    CASE v.type = "null" -> FALSE
      [] v.type = "boolean" -> v.bool
      [] v.type = "number" -> v.num # 0
      [] v.type = "string" -> v.str # <<>>
      [] v.type = "array" -> TRUE

(* storage || defaultValue, line 33 *)
orDefault(storage, defaultValue) ==
    IF truthy(storage) THEN storage ELSE defaultValue

(* localStorage holds the empty string under the name *)
EmptySlot == [empty |-> TRUE]

(* the test of line 24: getItem gives null or the empty string *)
slotPresent(slot) == slot # NoSlot /\ slot # EmptySlot

defaultEncode(data, password) == encryptData(JSONtext(data), password)

defaultDecodeOk(blob, password) ==
    decryptOk(blob, password) /\ JSONvalid(decryptData(blob, password))

defaultDecode(blob, password) == JSONvalue(decryptData(blob, password))

(* the texts found in the slot: JSON texts and one text that is no JSON *)
SlotTexts == {JSONtext(v) : v \in JsonValues} \cup {<<"x">>}

OpenSlots ==
    {NoSlot, EmptySlot}
      \cup {encryptData(text, p) : text \in SlotTexts, p \in Passwords}

InitOpen ==
    /\ storagePassword \in {NoPassword} \cup Passwords
    /\ localStorage \in OpenSlots
    /\ phase = "start"
    /\ decoding = NoSlot
    /\ accounts = <<>>
    /\ accountsStatus = EmptyMap
    /\ pending = {}
    /\ emitted = <<>>
    /\ errors = <<>>
    /\ calls = <<>>
    /\ op = [name |-> "init"]
    /\ writeFailed = FALSE
    /\ unread = NoSlot
    /\ store = Idle
    /\ cipher = Idle

(* lines 33-44: the value or the default becomes the store, and the
   immediate watcher starts a write-back of it *)
StoreReady(storage, defaultValue, readCalls, readErrors) ==
    LET value == orDefault(storage, defaultValue)
    IN  /\ store' = [default |-> defaultValue, value |-> value]
        /\ pending' = pending \cup {defaultEncode(value, storagePassword)}
        /\ errors' = readErrors
        /\ calls' = readCalls \o <<"watch", "encode">>
        /\ phase' = "ready"
        /\ decoding' = NoSlot
        /\ writeFailed' = FALSE
        /\ unread' = IF readErrors # <<>> THEN decoding.blob ELSE NoSlot

(* useReactiveEncryptedStorage(name, defaultValue) is called: lines 17-26 *)
useReactiveEncryptedStorage(defaultValue) ==
    /\ phase = "start"
    /\ op' = [name |-> "useReactiveEncryptedStorage"]
    /\ IF ~passwordSet
       THEN /\ errors' = <<"NoPassword">>
            /\ calls' = <<>>
            /\ phase' = "failed"
            /\ UNCHANGED <<decoding, pending, writeFailed, unread, store>>
       ELSE IF slotPresent(localStorage)
       THEN /\ decoding' = [blob |-> localStorage, password |-> storagePassword,
                            default |-> defaultValue]
            /\ calls' = <<"getItem", "getItem", "decode">>
            /\ phase' = "decoding"
            /\ errors' = <<>>
            /\ UNCHANGED <<pending, writeFailed, unread, store>>
       ELSE StoreReady(JNull, defaultValue, <<"getItem">>, <<>>)
    /\ emitted' = <<>>
    /\ UNCHANGED <<storagePassword, localStorage, accounts, accountsStatus, cipher>>

(* the default decode settles: lines 26-33 *)
StoreDecoded ==
    /\ phase = "decoding"
    /\ op' = [name |-> "decoded"]
    /\ IF defaultDecodeOk(decoding.blob, decoding.password)
       THEN StoreReady(defaultDecode(decoding.blob, decoding.password),
                       decoding.default, <<>>, <<>>)
       ELSE StoreReady(JNull, decoding.default, <<>>, <<"ReadError">>)
    /\ emitted' = <<>>
    /\ UNCHANGED <<storagePassword, localStorage, accounts, accountsStatus, cipher>>

NextOpen ==
    \/ \E defaultValue \in DefaultValues : useReactiveEncryptedStorage(defaultValue)
    \/ StoreDecoded
    \/ \E blob \in pending : WriteBackDone(blob, TRUE)
    \/ Reload(TRUE)

SpecOpen == InitOpen /\ [][NextOpen]_vars

(* ---- encryptData and decryptData byte by byte: lines 128-198 ---- *)

(* strings are sequences of UTF-16 code units, buffers sequences of bytes *)
MaxText == 2

SaltLength == 16

IvLength == 12

(* the tag AES-GCM appends when no tagLength is given *)
TagLength == 16

iterations == 1000

(* 'a', e acute, the byte order mark, a high and a low surrogate *)
CodeUnits == {97, 233, 65279, 55357, 56832}

Texts == UNION {[1..k -> CodeUnits] : k \in 0..MaxText}

CipherPasswords == {<<112>>, <<113>>}

(* the values crypto.getRandomValues may draw, lines 131 and 150 *)
Salts == {[i \in 1..SaltLength |-> b] : b \in {0, 255}}

Ivs == {[i \in 1..IvLength |-> b] : b \in {1, 128}}

(* the lengths of the strings handed to decryptData, short of a whole blob *)
CutLengths == {0, 15, 16, 27, 28, 43}

OperationError == "OperationError"

Min(a, b) == IF a < b THEN a ELSE b

RECURSIVE Sum(_)
Sum(bytes) == IF bytes = <<>> THEN 0 ELSE Head(bytes) + Sum(Tail(bytes))

(* Array.prototype.slice(from, to) *)
slice(a, from, to) == SubSeq(a, from + 1, Min(to, Len(a)))

isHighSurrogate(u) == u \in 55296..56319

isLowSurrogate(u) == u \in 56320..57343

(* the UTF-8 bytes of one code point *)
utf8(cp) ==
    IF cp < 128 THEN <<cp>>
    ELSE IF cp < 2048 THEN <<192 + (cp \div 64), 128 + (cp % 64)>>
    ELSE IF cp < 65536
    THEN <<224 + (cp \div 4096), 128 + ((cp \div 64) % 64), 128 + (cp % 64)>>
    ELSE <<240 + (cp \div 262144), 128 + ((cp \div 4096) % 64),
           128 + ((cp \div 64) % 64), 128 + (cp % 64)>>

(* the UTF-16 code units of one code point *)
utf16(cp) ==
    IF cp < 65536 THEN <<cp>>
    ELSE <<55296 + ((cp - 65536) \div 1024), 56320 + ((cp - 65536) % 1024)>>

RECURSIVE TextEncoderEncode(_)
(* new TextEncoder().encode(text): a surrogate pair is one code point, a
   surrogate on its own becomes U+FFFD *)
TextEncoderEncode(text) ==
    IF text = <<>> THEN <<>>
    ELSE IF /\ isHighSurrogate(text[1])
            /\ Len(text) > 1
            /\ isLowSurrogate(text[2])
    THEN utf8(65536 + (text[1] - 55296) * 1024 + (text[2] - 56320))
           \o TextEncoderEncode(SubSeq(text, 3, Len(text)))
    ELSE IF isHighSurrogate(text[1]) \/ isLowSurrogate(text[1])
    THEN utf8(65533) \o TextEncoderEncode(Tail(text))
    ELSE utf8(text[1]) \o TextEncoderEncode(Tail(text))

RECURSIVE utf8Decode(_)
(* the UTF-8 decoder: a byte that starts no well-formed sequence becomes
   U+FFFD *)
utf8Decode(bytes) ==
    LET n == Len(bytes)
        cont(i) == i <= n /\ bytes[i] \in 128..191
        rest(k) == utf8Decode(SubSeq(bytes, k + 1, n))
    IN  IF bytes = <<>> THEN <<>>
        ELSE IF bytes[1] < 128 THEN <<bytes[1]>> \o rest(1)
        ELSE IF bytes[1] \in 194..223 /\ cont(2)
        THEN utf16((bytes[1] - 192) * 64 + (bytes[2] - 128)) \o rest(2)
        ELSE IF /\ bytes[1] \in 224..239
                /\ cont(2)
                /\ cont(3)
                /\ bytes[1] = 224 => bytes[2] >= 160
                /\ bytes[1] = 237 => bytes[2] <= 159
        THEN utf16((bytes[1] - 224) * 4096 + (bytes[2] - 128) * 64
                     + (bytes[3] - 128)) \o rest(3)
        ELSE IF /\ bytes[1] \in 240..244
                /\ cont(2)
                /\ cont(3)
                /\ cont(4)
                /\ bytes[1] = 240 => bytes[2] >= 144
                /\ bytes[1] = 244 => bytes[2] <= 143
        THEN utf16((bytes[1] - 240) * 262144 + (bytes[2] - 128) * 4096
                     + (bytes[3] - 128) * 64 + (bytes[4] - 128)) \o rest(4)
        ELSE <<65533>> \o rest(1)

(* new TextDecoder().decode(buffer), lines 167 and 197: ignoreBOM is false,
   so a byte order mark at the start is dropped *)
TextDecoderDecode(bytes) ==
    IF Len(bytes) >= 3 /\ SubSeq(bytes, 1, 3) = <<239, 187, 191>>
    THEN utf8Decode(SubSeq(bytes, 4, Len(bytes)))
    ELSE utf8Decode(bytes)

(* importKey and deriveKey, lines 133-147 and 175-189: the key is a function
   of the password bytes, the salt and the iteration count *)
deriveKey(passwordBuffer, salt) ==
    (Sum(passwordBuffer) * 7 + Sum(salt) + iterations) % 256

keystream(key, iv, i) == (key + Sum(iv) + i) % 256

tagOf(key, iv, ct) ==
    [i \in 1..TagLength |-> (key + Sum(iv) + Sum(ct) + i) % 256]

(* crypto.subtle.encrypt with AES-GCM, lines 151-155: the ciphertext has the
   length of the plaintext and is followed by the tag *)
aesGcmEncrypt(key, iv, plain) ==
    LET ct == IF plain = <<>> THEN <<>>
              ELSE [i \in 1..Len(plain) |-> (plain[i] + keystream(key, iv, i)) % 256]
    IN  ct \o tagOf(key, iv, ct)

aesGcmDecrypt_noTagLengthCheck(key, iv, data) ==
    IF Len(data) < TagLength THEN [ok |-> TRUE, bytes |-> <<>>]
    ELSE LET ct == SubSeq(data, 1, Len(data) - TagLength)
             tag == SubSeq(data, Len(data) - TagLength + 1, Len(data))
         IN  IF tag # tagOf(key, iv, ct)
             THEN [ok |-> FALSE, error |-> OperationError]
             ELSE [ok |-> TRUE,
                   bytes |-> IF ct = <<>> THEN <<>>
                             ELSE [i \in 1..Len(ct) |->
                                     (ct[i] + 256 - keystream(key, iv, i)) % 256]]

(* crypto.subtle.decrypt with AES-GCM, lines 191-195: rejects with an
   OperationError when the data is shorter than the tag or the tag does not
   verify *)
aesGcmDecrypt(key, iv, data) ==
    IF Len(data) < TagLength THEN [ok |-> FALSE, error |-> OperationError]
    ELSE LET ct == SubSeq(data, 1, Len(data) - TagLength)
             tag == SubSeq(data, Len(data) - TagLength + 1, Len(data))
         IN  IF tag # tagOf(key, iv, ct)
             THEN [ok |-> FALSE, error |-> OperationError]
             ELSE [ok |-> TRUE,
                   bytes |-> IF ct = <<>> THEN <<>>
                             ELSE [i \in 1..Len(ct) |->
                                     (ct[i] + 256 - keystream(key, iv, i)) % 256]]

(* String.fromCharCode(byte), line 163 *)
fromCharCode(byte) == byte % 65536

(* the element of the Uint8Array that takes data.charCodeAt(i), line 169 *)
toUint8(unit) == unit % 256

(* encryptData, lines 128-164, with the salt and the iv it drew *)
encryptDataBytes(data, password, salt, iv) ==
    LET passwordBuffer == TextEncoderEncode(password)
        derivedKey == deriveKey(passwordBuffer, salt)
        encoded == TextEncoderEncode(data)
        encryptedArray == aesGcmEncrypt(derivedKey, iv, encoded)
        combinedArray == salt \o iv \o encryptedArray
    IN  [i \in 1..Len(combinedArray) |-> fromCharCode(combinedArray[i])]

(* decryptData, lines 166-198: the text, or the error it rejects with *)
decryptDataBytes(data, password) ==
    LET passwordBuffer == TextEncoderEncode(password)
        dataArray == IF data = <<>> THEN <<>>
                     ELSE [i \in 1..Len(data) |-> toUint8(data[i])]
        salt == slice(dataArray, 0, SaltLength)
        iv == slice(dataArray, SaltLength, SaltLength + IvLength)
        encryptedData == slice(dataArray, SaltLength + IvLength, Len(dataArray))
        derivedKey == deriveKey(passwordBuffer, salt)
        decryptedData == aesGcmDecrypt(derivedKey, iv, encryptedData)
    IN  IF decryptedData.ok
        THEN [ok |-> TRUE, text |-> TextDecoderDecode(decryptedData.bytes)]
        ELSE decryptedData

InitCipher ==
    /\ storagePassword = SessionPassword
    /\ localStorage = NoSlot
    /\ phase = "start"
    /\ decoding = NoSlot
    /\ accounts = <<>>
    /\ accountsStatus = EmptyMap
    /\ pending = {}
    /\ emitted = <<>>
    /\ errors = <<>>
    /\ calls = <<>>
    /\ op = [name |-> "init"]
    /\ writeFailed = FALSE
    /\ unread = NoSlot
    /\ store = Idle
    /\ cipher = Idle

CipherStage == IF cipher = Idle THEN "idle" ELSE cipher.stage

(* encryptData(data, password) resolves *)
EncryptData(data, password, salt, iv) ==
    /\ CipherStage = "idle"
    /\ cipher' = [stage |-> "encrypted", data |-> data, password |-> password,
                  blob |-> encryptDataBytes(data, password, salt, iv)]
    /\ op' = [name |-> "encryptData"]
    /\ UNCHANGED <<storagePassword, localStorage, phase, decoding, accounts,
                   accountsStatus, pending, emitted, errors, calls,
                   writeFailed, unread, store>>

(* decryptData(data, password) settles, data being the blob or its first
   n code units *)
DecryptData(n, password) ==
    /\ CipherStage = "encrypted"
    /\ n <= Len(cipher.blob)
    /\ LET data == SubSeq(cipher.blob, 1, n)
       IN  cipher' = [stage |-> "decrypted", data |-> cipher.data,
                      password |-> cipher.password, blob |-> cipher.blob,
                      given |-> data, with |-> password,
                      result |-> decryptDataBytes(data, password)]
    /\ op' = [name |-> "decryptData"]
    /\ UNCHANGED <<storagePassword, localStorage, phase, decoding, accounts,
                   accountsStatus, pending, emitted, errors, calls,
                   writeFailed, unread, store>>

NextCipher ==
    \/ \E data \in Texts, password \in CipherPasswords, salt \in Salts, iv \in Ivs :
          EncryptData(data, password, salt, iv)
    \/ \E password \in CipherPasswords :
          \/ DecryptData(Len(cipher.blob), password)
          \/ \E n \in CutLengths : DecryptData(n, password)

SpecCipher == InitCipher /\ [][NextCipher]_vars

(* ------------------------------ claims --------------------------------- *)

IsLowerCased(s) == s = toLowerCase(s)

CountEvents(out, e) == Cardinality({i \in DOMAIN out : out[i] = e})

CountNamed(out, name) == Cardinality({i \in DOMAIN out : out[i].event = name})

Matching(accs, address) ==
    {i \in DOMAIN accs : toLowerCase(accs[i].address) = toLowerCase(address)}

Without(accs, i) == SubSeq(accs, 1, i - 1) \o SubSeq(accs, i + 1, Len(accs))

(* C1: removeAddress with an address that matches no account of a non-empty
   list reports an error, emits nothing and leaves the account list and the
   status map unchanged. *)
C1_RemoveAbsentChangesNothing ==
    [][(/\ op'.name = "removeAddress"
        /\ accounts # <<>>
        /\ Matching(accounts, op'.address) = {})
       => (/\ errors' # <<>>
           /\ accounts' = accounts
           /\ emitted' = <<>>
           /\ accountsStatus' = accountsStatus)]_vars

(* C2: every key of the accountsStatus map is a lower-cased address. *)
C2_StatusKeysLowerCased ==
    \A k \in DOMAIN accountsStatus : IsLowerCased(k)

(* C3: removeAddress with an address that matches an account, in any letter
   case, emits exactly one removeAddress event {blockchain, address}, removes
   exactly that account and keeps the others in order, and leaves the status
   map with no entry for that account under any key. *)
C3_RemovePresentRemovesAll ==
    [][(/\ op'.name = "removeAddress"
        /\ Matching(accounts, op'.address) # {})
       => \E i \in Matching(accounts, op'.address) :
            /\ CountNamed(emitted', "removeAddress") = 1
            /\ CountEvents(emitted', RemoveAddressEvent(op'.address)) = 1
            /\ accounts' = Without(accounts, i)
            /\ \A k \in DOMAIN accountsStatus' :
                 toLowerCase(k) # toLowerCase(accounts[i].address)]_vars

(* C4: after a connect event every account of the list is AUTHORIZING under
   its lower-cased address, exactly one addAddress event {blockchain, address,
   version: 2} was emitted per account, and the list is unchanged. *)
C4_ConnectTracksEveryAccount ==
    [][op'.name = "connect"
       => /\ accounts' = accounts
          /\ Len(emitted') = Len(accounts)
          /\ \A i \in DOMAIN accounts :
               /\ CountEvents(emitted',
                     [event |-> "addAddress", blockchain |-> blockchain,
                      address |-> accounts[i].address, version |-> 2]) = 1
               /\ MapHas(accountsStatus', toLowerCase(accounts[i].address))
               /\ accountsStatus'[toLowerCase(accounts[i].address)] = "AUTHORIZING"]_vars

(* C5: reconnectAddress with a matching address leaves that account
   AUTHORIZING under its lower-cased address, emits exactly one addAddress
   event and changes no other account's status; with no match it reports an
   error, emits nothing and leaves the status map unchanged. *)
C5_ReconnectSetsLowerCasedStatus ==
    [][op'.name = "reconnectAddress"
       => IF op'.address # NoAddress /\ Matching(accounts, op'.address) # {}
          THEN \E i \in Matching(accounts, op'.address) :
                 LET key == toLowerCase(accounts[i].address)
                 IN  /\ MapHas(accountsStatus', key)
                     /\ accountsStatus'[key] = "AUTHORIZING"
                     /\ Len(emitted') = 1
                     /\ emitted'[1].event = "addAddress"
                     /\ \A j \in DOMAIN accounts \ {i} :
                          LET other == toLowerCase(accounts[j].address)
                          IN  /\ MapHas(accountsStatus', other) = MapHas(accountsStatus, other)
                              /\ MapHas(accountsStatus, other)
                                   => accountsStatus'[other] = accountsStatus[other]
          ELSE /\ errors' # <<>>
               /\ emitted' = <<>>
               /\ accountsStatus' = accountsStatus]_vars

(* the step ran the account-list watcher: hydration, or a handler that
   changed the list *)
WatcherRan ==
    /\ phase' = "ready"
    /\ \/ op'.name \in {"open", "openFinish"}
       \/ op'.name \in {"createAddress", "removeAddress"} /\ accounts' # accounts

Hydrated == op'.name \in {"open", "openFinish"}

(* C6: whenever the account-list watcher runs, every account with no status
   entry under its lower-cased address becomes AUTHORIZING and is announced
   with exactly one addAddress event, and every account that has an entry
   keeps its status and is not announced; the status map is empty at
   hydration, so every hydrated account is AUTHORIZING and announced. *)
C6_WatcherAnnouncesUntracked ==
    [][WatcherRan
       => \A i \in DOMAIN accounts' :
            LET key == toLowerCase(accounts'[i].address)
                announced == CountEvents(emitted', AddAddressEvent(accounts'[i].address))
            IN  /\ MapHas(accountsStatus', key)
                /\ IF ~Hydrated /\ MapHas(accountsStatus, key)
                   THEN accountsStatus'[key] = accountsStatus[key] /\ announced = 0
                   ELSE accountsStatus'[key] = "AUTHORIZING" /\ announced = 1]_vars

C6_Witness ==
    /\ op.name = "createAddress"
    /\ Len(accounts) = 2
    /\ MapHas(accountsStatus, toLowerCase(accounts[1].address))
    /\ accountsStatus[toLowerCase(accounts[1].address)] = "ONLINE"
    /\ MapHas(accountsStatus, toLowerCase(accounts[2].address))
    /\ accountsStatus[toLowerCase(accounts[2].address)] = "AUTHORIZING"
    /\ emitted = <<AddAddressEvent(accounts[2].address)>>

(* the persisted list [A, B] was hydrated: both are AUTHORIZING, both announced *)
C6_HydratedTwo ==
    /\ op.name = "openFinish"
    /\ Len(accounts) = 2
    /\ Len(emitted) = 2
    /\ \A i \in DOMAIN accounts :
         accountsStatus[toLowerCase(accounts[i].address)] = "AUTHORIZING"

ChallengeResultSets(name, status) ==
    op'.name = name
    => LET key == toLowerCase(op'.address)
       IN  /\ DOMAIN accountsStatus' = DOMAIN accountsStatus \cup {key}
           /\ accountsStatus'[key] = status
           /\ \A k \in DOMAIN accountsStatus \ {key} :
                accountsStatus'[k] = accountsStatus[k]
           /\ accounts' = accounts
           /\ emitted' = <<>>

(* C7: addressAuthChallengeSuccess for A sets the status of lower-cased A to
   ONLINE and addressAuthChallengeFailed sets it to UNAUTHORIZED; every other
   status entry and the account list are unchanged and nothing is emitted. *)
C7_ChallengeResultSetsStatus ==
    [][/\ ChallengeResultSets("addressAuthChallengeSuccess", "ONLINE")
       /\ ChallengeResultSets("addressAuthChallengeFailed", "UNAUTHORIZED")]_vars

C7_Witness ==
    /\ op.name = "addressAuthChallengeSuccess"
    /\ op.address = <<"A", "b">>
    /\ Len(accounts) = 2
    /\ MapHas(accountsStatus, <<"a", "b">>)
    /\ accountsStatus[<<"a", "b">>] = "ONLINE"
    /\ MapHas(accountsStatus, <<"c", "d">>)
    /\ accountsStatus[<<"c", "d">>] = "UNAUTHORIZED"

(* C8: a disconnect event empties the status map, whatever keys it held, and
   changes neither the account list nor the persisted slot, and emits nothing. *)
C8_DisconnectClearsStatus ==
    [][op'.name = "disconnect"
       => /\ DOMAIN accountsStatus' = {}
          /\ accounts' = accounts
          /\ localStorage' = localStorage
          /\ emitted' = <<>>]_vars

C8_Witness ==
    /\ op.name = "disconnect"
    /\ DOMAIN accountsStatus = {}
    /\ Len(accounts) = 2
    /\ localStorage # NoSlot

(* C9: a challenge for this blockchain (compared case-insensitively) is
   answered with exactly one response event carrying the message's id:
   {success: true, signature} signed with the matching account when the
   address is in the list (case-insensitively), {success: false} and an error
   otherwise; a challenge for another blockchain is not answered; the status
   map and the account list never change. *)
C9_ChallengeAnsweredOnce ==
    [][op'.name = "addressAuthChallenge"
       => LET message == op'.message
              known == Matching(accounts, message.payload.address)
          IN  /\ accountsStatus' = accountsStatus
              /\ accounts' = accounts
              /\ IF toLowerCase(message.payload.blockchain) # toLowerCase(blockchain)
                 THEN emitted' = <<>>
                 ELSE /\ Len(emitted') = 1
                      /\ emitted'[1].event = "response-"
                      /\ emitted'[1].messageId = message.messageId
                      /\ IF known # {}
                         THEN \E i \in known :
                                emitted'[1].body =
                                  [success |-> TRUE,
                                   signature |-> sign(accounts[i],
                                                      message.payload.dataToSign)]
                         ELSE /\ emitted'[1].body = [success |-> FALSE]
                              /\ errors' # <<>>]_vars

C9_Witness ==
    /\ op.name = "addressAuthChallenge"
    /\ op.message.messageId = 2
    /\ op.message.payload.address = <<"a", "b">>
    /\ Len(emitted) = 1
    /\ emitted[1].messageId = 2
    /\ emitted[1].body = [success |-> TRUE, signature |-> <<"sig", "k1", "d1">>]

(* C10: opening the store while no password is set fails at once: an error is
   reported, the slot is neither read nor written, neither decode nor encode
   is called, no watcher is installed and no write-back is started. *)
C10_OpenWithoutPasswordDoesNothing ==
    [][(op'.name = "open" /\ storagePassword = NoPassword)
       => /\ errors' # <<>>
          /\ calls' = <<>>
          /\ localStorage' = localStorage
          /\ pending' = pending
          /\ phase' = "failed"
          /\ accounts' = accounts]_vars

C10_Witness ==
    /\ op.name = "open"
    /\ storagePassword = NoPassword
    /\ phase = "failed"
    /\ localStorage # NoSlot
    /\ calls = <<>>

EncodeCalls(c) == Cardinality({i \in DOMAIN c : c[i] = "encode"})

(* the step applied a mutation batch to the reactive value *)
MutationBatch ==
    op'.name \in {"createAddress", "removeAddress"} /\ accounts' # accounts

(* the step returned the opened store *)
Opened == op'.name \in {"open", "openFinish"} /\ phase' = "ready"

(* C11: open yields defaultValue when the slot does not exist, and exactly
   the value decode returns when the slot holds a valid blob, whatever that
   value is. *)
C11_OpenYieldsDecodedValue ==
    [][(op'.name \in {"useReactiveEncryptedStorage", "decoded"} /\ phase' = "ready")
       => IF localStorage = NoSlot
          THEN store'.value = store'.default
          ELSE (/\ slotPresent(localStorage)
                /\ defaultDecodeOk(localStorage, storagePassword))
               => store'.value = defaultDecode(localStorage, storagePassword)]_vars

(* C12 as stated: the number of encode calls equals the number of mutation
   batches over every run, that is, a step calls encode once when it applies a
   mutation batch and never otherwise. *)
C12_EncodeOnlyPerBatch ==
    [][EncodeCalls(calls') = IF MutationBatch THEN 1 ELSE 0]_vars

(* C12 as amended: every mutation batch calls encode exactly once, and so
   does open itself, whose watcher is immediate: the number of encode calls
   is the number of mutation batches plus one. *)
C12_EncodePerBatchAndOpen ==
    [][EncodeCalls(calls') = IF MutationBatch \/ Opened THEN 1 ELSE 0]_vars

C12_Witness ==
    /\ op.name = "removeAddress"
    /\ calls = <<"encode">>
    /\ Len(accounts) = 1
    /\ writeBack(accounts, storagePassword) \in pending

(* C13: a failed write-back is surfaced and changes nothing: the in-memory
   value keeps its content, the slot keeps its previous content and the store
   stays open; after a failure every mutation batch still starts a write-back
   of the current value, and a write-back that succeeds puts its blob in the
   slot. *)
C13_WriteFailureKeepsStoreUsable ==
    [][/\ (op'.name = "writeBack" /\ ~op'.ok)
          => /\ errors' = <<"WriteError">>
             /\ accounts' = accounts
             /\ localStorage' = localStorage
             /\ phase' = "ready"
       /\ (writeFailed /\ MutationBatch)
          => /\ phase' = "ready"
             /\ encode(accounts', storagePassword) \in pending'
       /\ (writeFailed /\ op'.name = "writeBack" /\ op'.ok)
          => /\ localStorage' \in pending
             /\ errors' = <<>>]_vars

C13_Witness ==
    /\ writeFailed
    /\ op.name = "writeBack"
    /\ op.ok
    /\ pending = {}
    /\ accounts # <<>>
    /\ localStorage = encode(accounts, storagePassword)

(* C14: when the blob that open decodes was written under another password
   than the current one, or was changed since, open does not fail: an error
   is surfaced and the opened value is the default, the empty list. *)
C14_UnreadableBlobGivesDefault ==
    [][(/\ op'.name = "openFinish"
        /\ \/ decoding.blob.key # decoding.password
           \/ ~decoding.blob.intact)
       => /\ errors' = <<"ReadError">>
          /\ accounts' = <<>>
          /\ phase' = "ready"]_vars

C14_Witness ==
    /\ op.name = "openFinish"
    /\ errors = <<"ReadError">>
    /\ accounts = <<>>
    /\ phase = "ready"
    /\ localStorage # NoSlot
    /\ localStorage.intact
    /\ localStorage.key # storagePassword
    /\ JSONparse(localStorage.data) # <<>>

(* C15: decrypting what encryptData returned, under the same password, gives
   back the plaintext, whatever salt and iv were drawn. *)
C15_RoundTrip ==
    (/\ CipherStage = "decrypted"
     /\ cipher.given = cipher.blob
     /\ cipher.with = cipher.password)
    => /\ cipher.result.ok
       /\ cipher.result.text = cipher.data

C17_SlotMatchesValueWhenQuiet ==
    (phase = "ready" /\ pending = {} /\ ~writeFailed)
    => /\ localStorage # NoSlot
       /\ decryptOk(localStorage, storagePassword)
       /\ decode(localStorage, storagePassword) = accounts

(* the step is a disconnect, connect, reconnect or removal that affects the
   address of key k *)
Affects(k) ==
    LET held == {i \in DOMAIN accounts :
                   toLowerCase(accounts[i].address) = toLowerCase(k)}
    IN  \/ op'.name \in {"disconnect", "reload"}
        \/ op'.name \in {"connect", "reconnectAllAddresses"} /\ held # {}
        \/ /\ op'.name = "reconnectAddress"
           /\ held # {}
           /\ toLowerCase(op'.address) = toLowerCase(k)
        \/ /\ op'.name = "removeAddress"
           /\ \/ toLowerCase(op'.address) = toLowerCase(k)
              \/ \E i \in held : \A j \in DOMAIN accounts' : accounts'[j] # accounts[i]

ResultOnlyFrom(status, event) ==
    \A k \in DOMAIN accountsStatus' :
      accountsStatus'[k] = status
      => \/ op'.name = event /\ toLowerCase(op'.address) = toLowerCase(k)
         \/ /\ MapHas(accountsStatus, k)
            /\ accountsStatus[k] = status
            /\ ~Affects(k)

LocalOperations ==
    {"open", "openFinish", "createAddress", "removeAddress", "reconnectAddress",
     "reconnectAllAddresses", "connect", "disconnect"}

(* C18: an address is ONLINE only if an addressAuthChallengeSuccess for it
   came after the most recent disconnect, connect, reconnect or removal that
   affects it, UNAUTHORIZED only if an addressAuthChallengeFailed did, and no
   local operation sets a status other than AUTHORIZING. *)
C18_ResultsOnlyFromInboundEvents ==
    [][/\ ResultOnlyFrom("ONLINE", "addressAuthChallengeSuccess")
       /\ ResultOnlyFrom("UNAUTHORIZED", "addressAuthChallengeFailed")
       /\ op'.name \in LocalOperations
          => \A k \in DOMAIN accountsStatus' :
               (~MapHas(accountsStatus, k) \/ accountsStatus[k] # accountsStatus'[k])
               => accountsStatus'[k] = "AUTHORIZING"]_vars

(* C19: the blob that open could not decode stays in the slot until the
   application mutates the value. *)
C19_UnreadBlobKept ==
    unread # NoSlot => localStorage = unread

(* C20: every key of the status map is the lower-cased address of an account
   of the list. *)
C20_StatusKeysAreHeldAccounts ==
    \A k \in DOMAIN accountsStatus :
      \E i \in DOMAIN accounts : k = toLowerCase(accounts[i].address)
====
